---- MODULE Spec2Model ----
(***************************************************************************)
(* Model of the HTTP transport of go-eth2-client (package http: get, post, *)
(* get2, populateContentType, populateConsensusVersion).                   *)
(*                                                                         *)
(* One call is one action: the environment supplies the endpoint, the      *)
(* failure (if any) of the steps that precede the response, and the        *)
(* response (status, headers, body); the action computes what the handler  *)
(* returns and what it did with its per-call timeout context.              *)
(*                                                                         *)
(* Model of the SSZ codec of deneb.BlindedBlobSidecar (MarshalSSZTo,       *)
(* UnmarshalSSZ): byte strings are sequences of numbers 0..255.            *)
(*                                                                         *)
(* Model of multi.Service.BeaconState over the fan-out of its members.     *)
(*                                                                         *)
(* A body is a sequence of tokens.  "{" and "}" are the braces of a JSON   *)
(* object, "version:<tag>" is the member "version":"<tag>", "LF" is a      *)
(* line feed (JSON whitespace, byte 0x0a).                                 *)
(***************************************************************************)
EXTENDS Integers, Sequences, FiniteSets, Bags, TLC

VARIABLES pc, call, resp, ret, opCtx

\* the SSZ codec of BlindedBlobSidecar: the receiver b, its fields before the
\* last UnmarshalSSZ, the value last marshalled and its encoding, the buffer
\* last handed to UnmarshalSSZ, the error it returned and the last operation
VARIABLES b, bBefore, marshalled, encoding, inputBuf, sszErr, sszOp

\* the multi-endpoint BeaconState call: where it stands, what each member
\* will answer, the members whose answer doCall has consumed, the members
\* whose answer came after the return, the members cancelled at the deadline,
\* the causes retained, whether the deadline has fired, what doCall returned
\* and what BeaconState returned
VARIABLES mpc, plan, reported, late, cancelled, causes, deadlineFired,
          fanout, mresult

httpVars == <<pc, call, resp, ret, opCtx>>

multiVars == <<mpc, plan, reported, late, cancelled, causes, deadlineFired,
               fanout, mresult>>

sszVars == <<b, bBefore, marshalled, encoding, inputBuf, sszErr, sszOp>>

vars == <<httpVars, sszVars, multiVars>>

(***************************************************************************)
(* Bounds of the model.                                                    *)
(***************************************************************************)
\* most values a response carries under one header name
MaxHeaderValues == 2
\* most line feeds that follow the document in a response body
MaxPad == 1
\* most members of the multi-endpoint service
MaxMembers == 3

(***************************************************************************)
(* Values.                                                                 *)
(***************************************************************************)
Nil == [kind |-> "nil"]

\* net/http status constants used by the handlers
StatusNotFound == 404
StatusNoContent == 204

MethodGet == "GET"
MethodPost == "POST"

\* ContentType enumeration (zero value first)
ContentTypeUnknown == "ContentTypeUnknown"
ContentTypeSSZ == "ContentTypeSSZ"
ContentTypeJSON == "ContentTypeJSON"

\* spec.DataVersion enumeration (zero value first)
DataVersionUnknown == "unknown"
KnownVersions == {"phase0", "altair", "bellatrix", "capella", "deneb"}

\* the environment's choices
Endpoints == {"/eth/v2/debug/beacon/states/head", "/eth/v1/node/version"}
Statuses == {100, 200, 204, 206, 304, 404, 500}
MediaTypes == {"application/json", "application/octet-stream", "text/plain"}
VersionTags == {"phase0", "altair", "bogus"}
Documents ==
    { <<>>, <<"{">>, <<"{", "}">>, <<"{", "version:phase0", "}">>,
      <<"{", "version:altair", "}">>, <<"{", "version:bogus", "}">> }

RECURSIVE Pad(_, _)
Pad(doc, n) == IF n = 0 THEN doc ELSE Pad(Append(doc, "LF"), n - 1)

Bodies == { Pad(d, n) : d \in Documents, n \in 0..MaxPad }

SeqUpTo(S, n) == UNION { [1..k -> S] : k \in 0..n }

\* a response of the server: status line, the two headers the client reads,
\* the body, and whether reading the body from the connection succeeds
Responses ==
    [StatusCode : Statuses,
     ContentType : SeqUpTo(MediaTypes, MaxHeaderValues),
     Version : SeqUpTo(VersionTags, MaxHeaderValues),
     Body : Bodies, readOk : {TRUE}]
    \cup
    [StatusCode : Statuses,
     ContentType : SeqUpTo(MediaTypes, MaxHeaderValues),
     Version : SeqUpTo(VersionTags, MaxHeaderValues),
     Body : {<<>>}, readOk : {FALSE}]

\* responses with at most one value per header
PlainResponses ==
    { r \in Responses : Len(r.ContentType) <= 1 /\ Len(r.Version) <= 1 }

NoResponse == [kind |-> "none"]

(***************************************************************************)
(* Errors.                                                                 *)
(***************************************************************************)
\* type Error struct
Error(method, endpoint, statusCode, data) ==
    [kind |-> "Error", Method |-> method, Endpoint |-> endpoint,
     StatusCode |-> statusCode, Data |-> data]

\* errors.New / fmt.Errorf
New(msg) == [kind |-> "errorString", msg |-> msg]

\* errors.Wrap
Wrap(cause, msg) == [kind |-> "wrapped", msg |-> msg, cause |-> cause]

(***************************************************************************)
(* Decoding helpers.                                                       *)
(***************************************************************************)
\* fmt.Sprintf("%q", s): the tag as a quoted JSON string
Quote(s) == <<"\"", s, "\"">>

\* spec.DataVersion.UnmarshalJSON: sets the version when the quoted input
\* names a known version, otherwise reports an error and leaves it as it was
DataVersionUnmarshalJSON(d, input) ==
    IF \E v \in KnownVersions : input = Quote(v)
    THEN [d |-> CHOOSE v \in KnownVersions : input = Quote(v), err |-> Nil]
    ELSE [d |-> d, err |-> New("unrecognised data version")]

\* the value of the member "version":"<tag>" written as a token
MemberValue(tok) ==
    CASE tok = "version:phase0" -> Quote("phase0")
      [] tok = "version:altair" -> Quote("altair")
      [] tok = "version:bogus" -> Quote("bogus")
      [] OTHER -> Quote("")

IsMember(tok) == tok \in {"version:phase0", "version:altair", "version:bogus"}

IsSpace(tok) == tok = "LF"

\* the tokens of a body that are not JSON whitespace
StripSpace(body) == SelectSeq(body, LAMBDA t : ~IsSpace(t))

\* type responseMetadata and json.Unmarshal(res.body, &metadata): the body
\* must be one JSON object; a "version" member is decoded by
\* DataVersion.UnmarshalJSON, and without one Version keeps its zero value
responseMetadata(body) ==
    LET doc == StripSpace(body) IN
    IF doc = <<"{", "}">>
    THEN [Version |-> DataVersionUnknown, err |-> Nil]
    ELSE IF Len(doc) = 3 /\ doc[1] = "{" /\ IsMember(doc[2]) /\ doc[3] = "}"
    THEN LET u == DataVersionUnmarshalJSON(DataVersionUnknown, MemberValue(doc[2]))
         IN [Version |-> u.d, err |-> u.err]
    ELSE [Version |-> DataVersionUnknown, err |-> New("invalid JSON")]

\* ParseFromMediaType
ParseFromMediaType(input) ==
    CASE input = "application/json" -> [contentType |-> ContentTypeJSON, err |-> Nil]
      [] input = "application/octet-stream" -> [contentType |-> ContentTypeSSZ, err |-> Nil]
      [] OTHER -> [contentType |-> ContentTypeUnknown,
                   err |-> New("unrecognised content type")]

\* type httpResponse, as get2 first builds it
httpResponse(statusCode) ==
    [statusCode |-> statusCode, contentType |-> ContentTypeUnknown,
     consensusVersion |-> DataVersionUnknown, body |-> <<>>]

\* populateContentType(res, resp): the updated res and the error
populateContentType(res, r) ==
    LET respContentTypes == r.ContentType IN
    IF Len(respContentTypes) = 0
    THEN [res |-> res, err |-> New("no content type supplied in response")]
    ELSE IF Len(respContentTypes) # 1
    THEN [res |-> res, err |-> New("malformed content type")]
    ELSE LET p == ParseFromMediaType(respContentTypes[1])
         IN [res |-> [res EXCEPT !.contentType = p.contentType], err |-> p.err]

\* variant of populateConsensusVersion: without the header it gives up, never
\* reading the body
populateConsensusVersionNoBody(res, r) ==
    LET res1 == [res EXCEPT !.consensusVersion = DataVersionUnknown] IN
    IF Len(r.Version) = 0
    THEN [res |-> res1, err |-> New("no consensus version header")]
    ELSE IF Len(r.Version) # 1
    THEN [res |-> res1, err |-> New("malformed consensus version")]
    ELSE LET u == DataVersionUnmarshalJSON(res1.consensusVersion, Quote(r.Version[1]))
         IN IF u.err # Nil
            THEN [res |-> res1, err |-> Wrap(u.err, "failed to parse consensus version")]
            ELSE [res |-> [res1 EXCEPT !.consensusVersion = u.d], err |-> Nil]

\* variant of populateConsensusVersion: without the header a body that is not
\* JSON is accepted with the version left unknown
populateConsensusVersionLenient(res, r) ==
    LET res1 == [res EXCEPT !.consensusVersion = DataVersionUnknown] IN
    IF Len(r.Version) = 0
    THEN IF res1.contentType # ContentTypeJSON
         THEN [res |-> res1, err |-> Nil]
         ELSE LET metadata == responseMetadata(res1.body) IN
              IF metadata.err # Nil
              THEN [res |-> res1,
                    err |-> Wrap(metadata.err,
                        "no consensus version header and failed to parse response")]
              ELSE [res |-> [res1 EXCEPT !.consensusVersion = metadata.Version],
                    err |-> Nil]
    ELSE IF Len(r.Version) # 1
    THEN [res |-> res1, err |-> New("malformed consensus version")]
    ELSE LET u == DataVersionUnmarshalJSON(res1.consensusVersion, Quote(r.Version[1]))
         IN IF u.err # Nil
            THEN [res |-> res1, err |-> Wrap(u.err, "failed to parse consensus version")]
            ELSE [res |-> [res1 EXCEPT !.consensusVersion = u.d], err |-> Nil]

\* variant of populateConsensusVersion: the version of a JSON body, when it
\* has one, is taken before the header is looked at
populateConsensusVersionBodyFirst(res, r) ==
    LET res1 == [res EXCEPT !.consensusVersion = DataVersionUnknown]
        metadata == responseMetadata(res1.body)
    IN
    IF res1.contentType = ContentTypeJSON /\ metadata.err = Nil
       /\ metadata.Version # DataVersionUnknown
    THEN [res |-> [res1 EXCEPT !.consensusVersion = metadata.Version], err |-> Nil]
    ELSE IF Len(r.Version) = 0
    THEN IF res1.contentType # ContentTypeJSON
         THEN [res |-> res1, err |-> New("no consensus version header")]
         ELSE IF metadata.err # Nil
         THEN [res |-> res1,
               err |-> Wrap(metadata.err,
                   "no consensus version header and failed to parse response")]
         ELSE [res |-> [res1 EXCEPT !.consensusVersion = metadata.Version],
               err |-> Nil]
    ELSE IF Len(r.Version) # 1
    THEN [res |-> res1, err |-> New("malformed consensus version")]
    ELSE LET u == DataVersionUnmarshalJSON(res1.consensusVersion, Quote(r.Version[1]))
         IN IF u.err # Nil
            THEN [res |-> res1, err |-> Wrap(u.err, "failed to parse consensus version")]
            ELSE [res |-> [res1 EXCEPT !.consensusVersion = u.d], err |-> Nil]

\* variant of populateConsensusVersion: a header that cannot be used (several
\* values, unknown tag) is treated like an absent one
populateConsensusVersionFallback(res, r) ==
    LET res1 == [res EXCEPT !.consensusVersion = DataVersionUnknown]
        usable == Len(r.Version) = 1
                  /\ DataVersionUnmarshalJSON(DataVersionUnknown,
                                              Quote(r.Version[1])).err = Nil
    IN
    IF ~usable
    THEN IF res1.contentType # ContentTypeJSON
         THEN [res |-> res1, err |-> New("no consensus version header")]
         ELSE LET metadata == responseMetadata(res1.body) IN
              IF metadata.err # Nil
              THEN [res |-> res1,
                    err |-> Wrap(metadata.err,
                        "no consensus version header and failed to parse response")]
              ELSE [res |-> [res1 EXCEPT !.consensusVersion = metadata.Version],
                    err |-> Nil]
    ELSE [res |-> [res1 EXCEPT !.consensusVersion =
                       DataVersionUnmarshalJSON(DataVersionUnknown,
                                                Quote(r.Version[1])).d],
          err |-> Nil]

\* populateConsensusVersion(res, resp): the updated res and the error
populateConsensusVersion(res, r) ==
    LET res1 == [res EXCEPT !.consensusVersion = DataVersionUnknown]
        respConsensusVersions == r.Version
    IN
    IF Len(respConsensusVersions) = 0
    THEN IF res1.contentType # ContentTypeJSON
         THEN [res |-> res1, err |-> New("no consensus version header")]
         ELSE LET metadata == responseMetadata(res1.body) IN
              IF metadata.err # Nil
              THEN [res |-> res1,
                    err |-> Wrap(metadata.err,
                        "no consensus version header and failed to parse response")]
              ELSE [res |-> [res1 EXCEPT !.consensusVersion = metadata.Version],
                    err |-> Nil]
    ELSE IF Len(respConsensusVersions) # 1
    THEN [res |-> res1, err |-> New("malformed consensus version")]
    ELSE LET u == DataVersionUnmarshalJSON(res1.consensusVersion,
                                           Quote(respConsensusVersions[1]))
         IN IF u.err # Nil
            THEN [res |-> res1, err |-> Wrap(u.err, "failed to parse consensus version")]
            ELSE [res |-> [res1 EXCEPT !.consensusVersion = u.d], err |-> Nil]

statusFamily(statusCode) == statusCode \div 100

(***************************************************************************)
(* The handlers.  Each yields what the call returns (res, err) and the     *)
(* state in which it leaves its timeout context: "none" (never created),   *)
(* "live" or "cancelled".                                                  *)
(***************************************************************************)
Return(res, err, ctx) == [res |-> res, err |-> err, ctx |-> ctx]

\* variant of get2NotFound: nil on both counts, as get returns
get2NotFoundNil(res) == Return(Nil, Nil, "cancelled")

\* get2, the 404 exit
get2NotFound(res) == Return(res, Nil, "cancelled")

\* get2, the 204 exit
get2NoContent(res) == Return(res, Nil, "cancelled")

\* variant of get2Failed: the error carries the response with its line breaks
\* removed (the trimmed response built for the log)
get2FailedTrimmed(endpoint, res) ==
    Return(Nil, Error(MethodGet, endpoint, res.statusCode, StripSpace(res.body)),
           "cancelled")

\* get2, the exit for a status outside 2xx
get2Failed(endpoint, res) ==
    Return(Nil, Error(MethodGet, endpoint, res.statusCode, res.body), "cancelled")

\* variant of get2ContentType: a failure leaves the type as it was returned
get2ContentTypeKept(res, r) == populateContentType(res, r).res

\* variant of get2ContentType: only an absent or unrecognised type is taken as
\* JSON, a header of several values is not
get2ContentTypeSingle(res, r) ==
    LET p == populateContentType(res, r) IN
    IF p.err # Nil /\ Len(r.ContentType) <= 1
    THEN [p.res EXCEPT !.contentType = ContentTypeJSON]
    ELSE p.res

\* get2, content type step: a failure is absorbed, the type is taken as JSON
get2ContentType(res, r) ==
    LET p == populateContentType(res, r) IN
    IF p.err # Nil THEN [p.res EXCEPT !.contentType = ContentTypeJSON] ELSE p.res

\* variant of get2ConsensusVersion: on a failure the envelope built so far is
\* handed back together with the error
get2ConsensusVersionBoth(res, r) ==
    LET p == populateConsensusVersion(res, r) IN
    IF p.err # Nil
    THEN Return(p.res, Wrap(p.err, "failed to parse consensus version"), "cancelled")
    ELSE Return(p.res, Nil, "cancelled")

\* get2, consensus version step and the final return
get2ConsensusVersion(res, r) ==
    LET p == populateConsensusVersion(res, r) IN
    IF p.err # Nil
    THEN Return(Nil, Wrap(p.err, "failed to parse consensus version"), "cancelled")
    ELSE Return(p.res, Nil, "cancelled")

\* get2, the test for 404
get2IsNotFound(r) == r.StatusCode = StatusNotFound

\* variant of get2IsNoContent: 204 is not singled out
get2IsNoContentNever(r) == FALSE

\* get2, the test for 204
get2IsNoContent(r) == r.StatusCode = StatusNoContent

\* variant of get2Response: the body is read before the status is looked at,
\* as post does
get2ResponseReadFirst(endpoint, r) ==
    IF ~r.readOk
    THEN Return(Nil, Wrap(New("read error"), "failed to read body"), "cancelled")
    ELSE LET res1 == [httpResponse(r.StatusCode) EXCEPT !.body = r.Body] IN
         IF get2IsNotFound(r) THEN get2NotFound(res1)
         ELSE IF get2IsNoContent(r) THEN get2NoContent(res1)
         ELSE IF statusFamily(r.StatusCode) # 2 THEN get2Failed(endpoint, res1)
         ELSE get2ConsensusVersion(get2ContentType(res1, r), r)

\* get2, from the response on
get2Response(endpoint, r) ==
    LET res == httpResponse(r.StatusCode) IN
    IF get2IsNotFound(r) THEN get2NotFound(res)
    ELSE IF get2IsNoContent(r) THEN get2NoContent(res)
    ELSE IF ~r.readOk
    THEN Return(Nil, Wrap(New("read error"), "failed to read body"), "cancelled")
    ELSE LET res1 == [res EXCEPT !.body = r.Body] IN
         IF statusFamily(r.StatusCode) # 2 THEN get2Failed(endpoint, res1)
         ELSE get2ConsensusVersion(get2ContentType(res1, r), r)

\* Service.get2
get2(endpoint, fault, r) ==
    CASE fault = "url" ->
            Return(Nil, Wrap(New("parse error"), "invalid endpoint"), "none")
      [] fault = "request" ->
            Return(Nil, Wrap(New("request error"), "failed to create GET request"),
                   "cancelled")
      [] fault = "transport" ->
            Return(Nil, Wrap(New("transport error"), "failed to call GET endpoint"),
                   "cancelled")
      [] OTHER -> get2Response(endpoint, r)

\* io.Reader over the data read
Reader(data) == [kind |-> "reader", data |-> data]

\* variant of getResponse: the success path returns without cancel()
getResponseLeak(endpoint, r) ==
    IF r.StatusCode = StatusNotFound THEN Return(Nil, Nil, "cancelled")
    ELSE IF ~r.readOk
    THEN Return(Nil, Wrap(New("read error"), "failed to read GET response"),
                "cancelled")
    ELSE IF statusFamily(r.StatusCode) # 2
    THEN Return(Nil, Error(MethodGet, endpoint, r.StatusCode, r.Body), "cancelled")
    ELSE Return(Reader(r.Body), Nil, "live")

\* Service.get, from the response on
getResponse(endpoint, r) ==
    IF r.StatusCode = StatusNotFound THEN Return(Nil, Nil, "cancelled")
    ELSE IF ~r.readOk
    THEN Return(Nil, Wrap(New("read error"), "failed to read GET response"),
                "cancelled")
    ELSE IF statusFamily(r.StatusCode) # 2
    THEN Return(Nil, Error(MethodGet, endpoint, r.StatusCode, r.Body), "cancelled")
    ELSE Return(Reader(r.Body), Nil, "cancelled")

\* Service.get
get(endpoint, fault, r) ==
    CASE fault = "url" ->
            Return(Nil, Wrap(New("parse error"), "invalid endpoint"), "none")
      [] fault = "request" ->
            Return(Nil, Wrap(New("request error"), "failed to create GET request"),
                   "cancelled")
      [] fault = "transport" ->
            Return(Nil, Wrap(New("transport error"), "failed to call GET endpoint"),
                   "cancelled")
      [] OTHER -> getResponse(endpoint, r)

\* variant of postResponse: a 404 is "nothing found", as in get
postResponseNotFound(endpoint, r) ==
    IF r.StatusCode = StatusNotFound THEN Return(Nil, Nil, "cancelled")
    ELSE IF ~r.readOk
    THEN Return(Nil, Wrap(New("read error"), "failed to read POST response"),
                "cancelled")
    ELSE IF statusFamily(r.StatusCode) # 2
    THEN Return(Nil, Error(MethodPost, endpoint, r.StatusCode, r.Body), "cancelled")
    ELSE Return(Reader(r.Body), Nil, "cancelled")

\* Service.post, from the response on
postResponse(endpoint, r) ==
    IF ~r.readOk
    THEN Return(Nil, Wrap(New("read error"), "failed to read POST response"),
                "cancelled")
    ELSE IF statusFamily(r.StatusCode) # 2
    THEN Return(Nil, Error(MethodPost, endpoint, r.StatusCode, r.Body), "cancelled")
    ELSE Return(Reader(r.Body), Nil, "cancelled")

\* Service.post
post(endpoint, fault, r) ==
    CASE fault = "body" ->
            Return(Nil, New("failed to read request body"), "none")
      [] fault = "url" ->
            Return(Nil, Wrap(New("parse error"), "invalid endpoint"), "none")
      [] fault = "request" ->
            Return(Nil, Wrap(New("request error"), "failed to create POST request"),
                   "cancelled")
      [] fault = "transport" ->
            Return(Nil, Wrap(New("transport error"), "failed to call POST endpoint"),
                   "cancelled")
      [] OTHER -> postResponse(endpoint, r)

(***************************************************************************)
(* The state machine: a caller issues one call at a time.                  *)
(***************************************************************************)
\* failures before a response is received
GetFaults == {"url", "request", "transport"}
PostFaults == {"body", "url", "request", "transport"}

(***************************************************************************)
(* The SSZ codec of BlindedBlobSidecar.                                    *)
(***************************************************************************)
\* SizeSSZ
SizeSSZ == 216

RECURSIVE Fill(_, _)
\* n bytes of value v
Fill(n, v) == IF n = 0 THEN <<>> ELSE <<v>> \o Fill(n - 1, v)

\* the bytes from, from+1, ..., from+n-1
Ramp(n, from) == [i \in 1..n |-> (from + i - 1) % 256]

\* values of the uint64 fields (Index, Slot, ProposerIndex)
Uint64s == {0, 16909060, 2147483647}

\* the zero value of the struct
ZeroSidecar ==
    [BlockRoot |-> Fill(32, 0), Index |-> 0, Slot |-> 0,
     BlockParentRoot |-> Fill(32, 0), ProposerIndex |-> 0,
     BlobRoot |-> Fill(32, 0), KzgCommitment |-> Fill(48, 0),
     KzgProof |-> Fill(48, 0)]

\* the byte fields of the values the codec is exercised on
ByteFields ==
    { [BlockRoot |-> Ramp(32, 1), BlockParentRoot |-> Ramp(32, 33),
       BlobRoot |-> Ramp(32, 65), KzgCommitment |-> Ramp(48, 97),
       KzgProof |-> Ramp(48, 145)],
      [BlockRoot |-> Fill(32, 17), BlockParentRoot |-> Fill(32, 34),
       BlobRoot |-> Fill(32, 51), KzgCommitment |-> Fill(48, 68),
       KzgProof |-> Fill(48, 255)] }

\* the uint64 fields of the values the codec is exercised on
Uint64Fields ==
    { t \in [Index : Uint64s, Slot : Uint64s, ProposerIndex : Uint64s] :
        /\ t.Index # t.Slot /\ t.Slot # t.ProposerIndex
        /\ t.Index # t.ProposerIndex }

\* type BlindedBlobSidecar: the values the codec is exercised on
Sidecars ==
    { [BlockRoot |-> f.BlockRoot, Index |-> t.Index, Slot |-> t.Slot,
       BlockParentRoot |-> f.BlockParentRoot, ProposerIndex |-> t.ProposerIndex,
       BlobRoot |-> f.BlobRoot, KzgCommitment |-> f.KzgCommitment,
       KzgProof |-> f.KzgProof] : f \in ByteFields, t \in Uint64Fields }

RECURSIVE LittleEndian(_, _)
\* the n low bytes of v, least significant first
LittleEndian(v, n) ==
    IF n = 0 THEN <<>> ELSE <<v % 256>> \o LittleEndian(v \div 256, n - 1)

\* ssz.MarshalUint64
MarshalUint64(dst, v) == dst \o LittleEndian(v, 8)

RECURSIVE UnmarshallUint64(_)
\* ssz.UnmarshallUint64: little endian
UnmarshallUint64(bytes) ==
    IF bytes = <<>> THEN 0
    ELSE bytes[1] + 256 * UnmarshallUint64(Tail(bytes))

\* buf[from:to] of Go: the bytes at offsets from .. to-1
Slice(buf, from, to) == SubSeq(buf, from + 1, to)

\* BlindedBlobSidecar.MarshalSSZTo
MarshalSSZTo(v, buf) ==
    LET dst0 == buf \o v.BlockRoot
        dst1 == MarshalUint64(dst0, v.Index)
        dst2 == MarshalUint64(dst1, v.Slot)
        dst3 == dst2 \o v.BlockParentRoot
        dst4 == MarshalUint64(dst3, v.ProposerIndex)
        dst5 == dst4 \o v.BlobRoot
        dst6 == dst5 \o v.KzgCommitment
        dst7 == dst6 \o v.KzgProof
    IN [dst |-> dst7, err |-> Nil]

\* BlindedBlobSidecar.MarshalSSZ
MarshalSSZ(v) == MarshalSSZTo(v, <<>>)

\* ssz.ErrSize
ErrSize == New("incorrect size")

\* variant of UnmarshalSSZ: only a buffer that is too short is refused
UnmarshalSSZAtLeast(v, buf) ==
    IF Len(buf) < SizeSSZ THEN [b |-> v, err |-> ErrSize]
    ELSE [b |-> [BlockRoot |-> Slice(buf, 0, 32),
                 Index |-> UnmarshallUint64(Slice(buf, 32, 40)),
                 Slot |-> UnmarshallUint64(Slice(buf, 40, 48)),
                 BlockParentRoot |-> Slice(buf, 48, 80),
                 ProposerIndex |-> UnmarshallUint64(Slice(buf, 80, 88)),
                 BlobRoot |-> Slice(buf, 88, 120),
                 KzgCommitment |-> Slice(buf, 120, 168),
                 KzgProof |-> Slice(buf, 168, 216)],
          err |-> Nil]

\* BlindedBlobSidecar.UnmarshalSSZ on the receiver v: the receiver afterwards
\* and the error
UnmarshalSSZ(v, buf) ==
    IF Len(buf) # SizeSSZ THEN [b |-> v, err |-> ErrSize]
    ELSE [b |-> [BlockRoot |-> Slice(buf, 0, 32),
                 Index |-> UnmarshallUint64(Slice(buf, 32, 40)),
                 Slot |-> UnmarshallUint64(Slice(buf, 40, 48)),
                 BlockParentRoot |-> Slice(buf, 48, 80),
                 ProposerIndex |-> UnmarshallUint64(Slice(buf, 80, 88)),
                 BlobRoot |-> Slice(buf, 88, 120),
                 KzgCommitment |-> Slice(buf, 120, 168),
                 KzgProof |-> Slice(buf, 168, 216)],
          err |-> Nil]

\* buffers of a wrong length made from an encoding: cut short, one byte
\* short, one byte long, empty
WrongLength(enc) ==
    { <<>>, SubSeq(enc, 1, 32), SubSeq(enc, 1, Len(enc) - 1), enc \o <<0>> }

InitSSZ ==
    /\ b = ZeroSidecar
    /\ bBefore = ZeroSidecar
    /\ marshalled = ZeroSidecar
    /\ encoding = <<>>
    /\ inputBuf = <<>>
    /\ sszErr = Nil
    /\ sszOp = "none"

\* v.MarshalSSZ() for some value v
Marshal ==
    /\ \E v \in Sidecars :
         /\ marshalled' = v
         /\ encoding' = MarshalSSZ(v).dst
    /\ sszOp' = "marshal"
    /\ UNCHANGED <<b, bBefore, inputBuf, sszErr>>
    /\ UNCHANGED <<httpVars, multiVars>>

\* b.UnmarshalSSZ(buf) on the last encoding or on a buffer of a wrong length
Unmarshal ==
    /\ sszOp # "none"
    /\ \E buf \in {encoding} \cup WrongLength(encoding) :
         LET u == UnmarshalSSZ(b, buf) IN
         /\ inputBuf' = buf
         /\ bBefore' = b
         /\ b' = u.b
         /\ sszErr' = u.err
    /\ sszOp' = "unmarshal"
    /\ UNCHANGED <<marshalled, encoding>>
    /\ UNCHANGED <<httpVars, multiVars>>

NextSSZ == Marshal \/ Unmarshal

(***************************************************************************)
(* multi.Service.BeaconState.  A member's answer is what its BeaconState   *)
(* returns: a state and no error, nil and no error (the state is not       *)
(* available), or nil and an error.                                        *)
(***************************************************************************)
\* the beacon state member m holds
State(m) == [kind |-> "state", from |-> m]

\* the errors a member's call ends with: transport, call and decode
TransportError == Wrap(New("connection refused"), "failed to call GET endpoint")
CallError == Error(MethodGet, "/eth/v2/debug/beacon/states/head", 500, <<>>)
DecodeError ==
    Wrap(New("no consensus version header"), "failed to parse consensus version")

\* the error of a member call that was cancelled at the deadline
DeadlineExceeded ==
    Wrap(New("context deadline exceeded"), "failed to call GET endpoint")

\* a member that does not implement consensusclient.BeaconStateProvider
Incapable == [kind |-> "incapable"]

\* what member m may answer
Answers(m) ==
    { [res |-> State(m), err |-> Nil], [res |-> Nil, err |-> Nil],
      [res |-> Nil, err |-> TransportError], [res |-> Nil, err |-> CallError],
      [res |-> Nil, err |-> DecodeError] }

\* the configurations of n members: each is incapable or has its answer
Plans(n) ==
    { p \in [1..n -> {Incapable} \cup UNION { Answers(m) : m \in 1..n }] :
        /\ \A m \in 1..n : p[m] = Incapable \/ p[m] \in Answers(m)
        /\ \E m \in 1..n : p[m] # Incapable }

\* the members that declare the capability
Capable(p) == { m \in DOMAIN p : p[m] # Incapable }

\* the function BeaconState hands to doCall, applied to one client: the type
\* assertion panics on a client without the interface
beaconStateCall(client) ==
    IF client = Incapable THEN [panic |-> TRUE, res |-> Nil, err |-> Nil]
    ELSE IF client.err # Nil
    THEN [panic |-> FALSE, res |-> Nil, err |-> client.err]
    ELSE [panic |-> FALSE, res |-> client.res, err |-> Nil]

\* variant of BeaconState: a nil result of the fan-out becomes an error
BeaconStateEmptyIsError(fan) ==
    IF fan.err # Nil THEN [res |-> Nil, err |-> fan.err]
    ELSE IF fan.res = Nil THEN [res |-> Nil, err |-> New("empty response")]
    ELSE [res |-> fan.res, err |-> Nil]

\* variant of BeaconState: the error of the fan-out is dropped
BeaconStateSwallow(fan) ==
    IF fan.res = Nil THEN [res |-> Nil, err |-> Nil]
    ELSE [res |-> fan.res, err |-> Nil]

\* multi.Service.BeaconState, after doCall has returned fan = (res, err)
BeaconState(fan) ==
    IF fan.err # Nil THEN [res |-> Nil, err |-> fan.err]
    ELSE IF fan.res = Nil THEN [res |-> Nil, err |-> Nil]
    ELSE [res |-> fan.res, err |-> Nil]

\* variant of doCallTargets: every member is called
doCallTargetsAll(p) == DOMAIN p

\* doCall: the members the operation is fanned out to
doCallTargets(p) == Capable(p)

\* variant of doCallStops: an error also ends the call
doCallStopsOnError(out) == out.err # Nil \/ out.res # Nil

\* variant of doCallStops: a nil result also ends the call
doCallStopsOnNotFound(out) == out.err = Nil

\* doCall, no combiner: the outcome that ends the call at once is a success
doCallStops(out) == out.err = Nil /\ out.res # Nil

\* variant of doCallCancels: the pending member calls are left running
doCallCancelsNone(pending) == {}

\* doCall: the member calls cancelled when the deadline elapses
doCallCancels(pending) == pending

\* the Aggregate error
Aggregate(cs) == [kind |-> "aggregate", causes |-> cs]

\* doCall: the result once every member has failed, reported "not found" or
\* been cancelled, cs being the causes retained
doCallFinal(targets, cs) ==
    IF BagCardinality(cs) = Cardinality(targets) /\ targets # {}
    THEN [res |-> Nil, err |-> Aggregate(cs)]
    ELSE [res |-> Nil, err |-> Nil]

\* one cause, of one member
Cause(m, err) == SetToBag({[member |-> m, err |-> err]})

NoResult == [kind |-> "none"]

InitMulti ==
    /\ mpc = "idle"
    /\ plan = <<>>
    /\ reported = {}
    /\ late = {}
    /\ cancelled = {}
    /\ causes = EmptyBag
    /\ deadlineFired = FALSE
    /\ fanout = NoResult
    /\ mresult = NoResult

\* BeaconState is called on a service of at least two members
CallBeaconState ==
    /\ mpc = "idle"
    /\ \E n \in 2..MaxMembers : \E p \in Plans(n) : plan' = p
    /\ mpc' = "running"
    /\ UNCHANGED <<reported, late, cancelled, causes, deadlineFired, fanout,
                   mresult>>
    /\ UNCHANGED <<httpVars, sszVars>>

\* doCall returns fan and BeaconState returns to its caller
MultiReturn(fan) ==
    /\ fanout' = fan
    /\ mresult' = BeaconState(fan)
    /\ mpc' = "returned"

\* the call of member m ends and doCall consumes its outcome
Arrive(m) ==
    /\ mpc = "running"
    /\ m \in doCallTargets(plan) \ reported
    /\ LET out == beaconStateCall(plan[m]) IN
       IF out.panic
       THEN /\ mpc' = "panicked"
            /\ UNCHANGED <<reported, causes, fanout, mresult>>
       ELSE /\ reported' = reported \cup {m}
            /\ causes' = IF out.err # Nil THEN causes (+) Cause(m, out.err)
                         ELSE causes
            /\ IF doCallStops(out)
               THEN MultiReturn([res |-> out.res, err |-> out.err])
               ELSE IF reported' = doCallTargets(plan)
               THEN MultiReturn(doCallFinal(doCallTargets(plan), causes'))
               ELSE UNCHANGED <<mpc, fanout, mresult>>
    /\ UNCHANGED <<plan, late, cancelled, deadlineFired>>
    /\ UNCHANGED <<httpVars, sszVars>>

\* the deadline of the operation elapses before any member has succeeded
Deadline ==
    /\ mpc = "running"
    /\ LET pending == doCallTargets(plan) \ reported
           gone == doCallCancels(pending)
           cs == causes (+) SetToBag({ [member |-> m, err |-> DeadlineExceeded] :
                                         m \in gone })
       IN /\ cancelled' = gone
          /\ causes' = cs
          /\ MultiReturn(doCallFinal(doCallTargets(plan), cs))
    /\ deadlineFired' = TRUE
    /\ UNCHANGED <<plan, reported, late>>
    /\ UNCHANGED <<httpVars, sszVars>>

\* the call of member m ends after doCall has returned: it is not awaited
LateArrive(m) ==
    /\ mpc = "returned"
    /\ m \in (doCallTargets(plan) \ reported) \ (cancelled \cup late)
    /\ late' = late \cup {m}
    /\ UNCHANGED <<mpc, plan, reported, cancelled, causes, deadlineFired, fanout,
                   mresult>>
    /\ UNCHANGED <<httpVars, sszVars>>

\* the caller has the result and may call again
MultiDone ==
    /\ mpc = "returned"
    /\ mpc' = "idle"
    /\ plan' = <<>>
    /\ reported' = {}
    /\ late' = {}
    /\ cancelled' = {}
    /\ causes' = EmptyBag
    /\ deadlineFired' = FALSE
    /\ fanout' = NoResult
    /\ mresult' = NoResult
    /\ UNCHANGED <<httpVars, sszVars>>

NextMulti ==
    \/ CallBeaconState
    \/ \E m \in 1..MaxMembers : Arrive(m)
    \/ Deadline
    \/ \E m \in 1..MaxMembers : LateArrive(m)
    \/ MultiDone

Init ==
    /\ pc = "idle"
    /\ call = Nil
    /\ resp = NoResponse
    /\ ret = Nil
    /\ opCtx = "none"
    /\ InitSSZ
    /\ InitMulti

Finish(op, endpoint, fault, r, out) ==
    /\ pc' = "done"
    /\ call' = [kind |-> "call", op |-> op, endpoint |-> endpoint, fault |-> fault]
    /\ resp' = r
    /\ ret' = [res |-> out.res, err |-> out.err]
    /\ opCtx' = out.ctx
    /\ UNCHANGED <<sszVars, multiVars>>

\* a call of get
Get ==
    /\ pc = "idle"
    /\ \E endpoint \in Endpoints :
         \/ \E fault \in GetFaults :
              Finish("get", endpoint, fault, NoResponse,
                     get(endpoint, fault, NoResponse))
         \/ \E r \in PlainResponses :
              Finish("get", endpoint, "none", r, get(endpoint, "none", r))

\* a call of post
Post ==
    /\ pc = "idle"
    /\ \E endpoint \in Endpoints :
         \/ \E fault \in PostFaults :
              Finish("post", endpoint, fault, NoResponse,
                     post(endpoint, fault, NoResponse))
         \/ \E r \in PlainResponses :
              Finish("post", endpoint, "none", r, post(endpoint, "none", r))

\* a call of get2
Get2 ==
    /\ pc = "idle"
    /\ \E endpoint \in Endpoints :
         \/ \E fault \in GetFaults :
              Finish("get2", endpoint, fault, NoResponse,
                     get2(endpoint, fault, NoResponse))
         \/ \E r \in Responses :
              Finish("get2", endpoint, "none", r, get2(endpoint, "none", r))

\* the caller has consumed the result and may call again
Done ==
    /\ pc = "done"
    /\ pc' = "idle"
    /\ call' = Nil
    /\ resp' = NoResponse
    /\ ret' = Nil
    /\ opCtx' = "none"
    /\ UNCHANGED <<sszVars, multiVars>>

Next == Get \/ Post \/ Get2 \/ Done

Spec == Init /\ [][Next]_vars

SpecSSZ == Init /\ [][NextSSZ]_vars

SpecMulti == Init /\ [][NextMulti]_vars

TypeOK ==
    /\ pc \in {"idle", "done"}
    /\ opCtx \in {"none", "live", "cancelled"}

(***************************************************************************)
(* Vocabulary of the properties, stated on the response and on what the    *)
(* call returned.                                                          *)
(***************************************************************************)
\* the call op has returned after receiving a response
Answered(op) == pc = "done" /\ call.op = op /\ call.fault = "none"

\* a response of the Success class (2xx other than 204) whose body was read
Success2xx ==
    /\ resp.StatusCode >= 200 /\ resp.StatusCode < 300
    /\ resp.StatusCode # 204
    /\ resp.readOk

\* the response declares the binary encoding
DeclaresBinary == resp.ContentType = <<"application/octet-stream">>

\* the document a body consists of, its trailing line feeds left out
DocOf(body) ==
    CHOOSE d \in Documents : \E n \in 0..Len(body) : body = Pad(d, n)

\* the call returned an envelope and no error
ReturnedEnvelope == ret.res # Nil /\ ret.err = Nil

\* the call returned no envelope and an error of the version decoding stage,
\* which is not a Call Error
ReturnedDecodeError ==
    /\ ret.res = Nil
    /\ ret.err # Nil
    /\ ret.err.kind = "wrapped"
    /\ ret.err.msg = "failed to parse consensus version"

ContentTypeMessages ==
    {"no content type supplied in response", "malformed content type",
     "unrecognised content type"}

C2_NoContentEnvelope ==
    (Answered("get2") /\ resp.StatusCode = 204) =>
        /\ ret.err = Nil
        /\ ret.res # Nil
        /\ ret.res.statusCode = 204
        /\ ret.res.body = <<>>
        /\ ret.res.contentType = ContentTypeUnknown
        /\ ret.res.consensusVersion = DataVersionUnknown

\* C2 happens: a 204 that declares JSON and a known version, with a body
C2_Witness ==
    /\ Answered("get2") /\ resp.StatusCode = 204
    /\ resp.ContentType = <<"application/json">>
    /\ resp.Version = <<"altair">>
    /\ resp.Body # <<>>
    /\ ReturnedEnvelope

\* C3, as the claim states it: for every 2xx JSON response without the
\* version header the version is the payload's version field, and a payload
\* without a version field makes the call fail with a decode error.
C3_Original ==
    (Answered("get2") /\ Success2xx /\ ~DeclaresBinary /\ resp.Version = <<>>) =>
        /\ DocOf(resp.Body) = <<"{", "version:phase0", "}">> =>
               (ReturnedEnvelope /\ ret.res.consensusVersion = "phase0")
        /\ DocOf(resp.Body) = <<"{", "version:altair", "}">> =>
               (ReturnedEnvelope /\ ret.res.consensusVersion = "altair")
        /\ (\A i \in 1..Len(resp.Body) : ~IsMember(resp.Body[i])) =>
               ReturnedDecodeError

\* C3, amended: for every 2xx response without the version header whose
\* content type resolves to JSON, a payload that is a JSON object with a
\* known version field gives an envelope with that version; a JSON object
\* without a version field gives an envelope, without error, whose version
\* is Unknown; a payload that is not a JSON object, or whose version field is
\* not a known tag, makes the call fail with a decode error.
C3_VersionFromPayload ==
    (Answered("get2") /\ Success2xx /\ ~DeclaresBinary /\ resp.Version = <<>>) =>
        /\ DocOf(resp.Body) = <<"{", "version:phase0", "}">> =>
               (ReturnedEnvelope /\ ret.res.consensusVersion = "phase0")
        /\ DocOf(resp.Body) = <<"{", "version:altair", "}">> =>
               (ReturnedEnvelope /\ ret.res.consensusVersion = "altair")
        /\ DocOf(resp.Body) = <<"{", "}">> =>
               (ReturnedEnvelope /\ ret.res.consensusVersion = DataVersionUnknown)
        /\ DocOf(resp.Body) \in {<<>>, <<"{">>, <<"{", "version:bogus", "}">>} =>
               ReturnedDecodeError

\* C3 happens: a JSON object without a version field, no version header
C3_Witness ==
    /\ Answered("get2") /\ Success2xx
    /\ resp.ContentType = <<"application/json">>
    /\ resp.Version = <<>>
    /\ DocOf(resp.Body) = <<"{", "}">>
    /\ ReturnedEnvelope

\* C4: for every 2xx response that declares the binary content type and has
\* no version header, get2 returns no envelope and a decode error, whatever
\* the body holds.
C4_BinaryNeedsHeader ==
    (Answered("get2") /\ Success2xx /\ DeclaresBinary /\ resp.Version = <<>>) =>
        ReturnedDecodeError

\* C4 happens: a binary response without the header whose body would name a
\* version if it were read as JSON
C4_Witness ==
    /\ Answered("get2") /\ Success2xx /\ DeclaresBinary
    /\ resp.Version = <<>>
    /\ DocOf(resp.Body) = <<"{", "version:altair", "}">>
    /\ ReturnedDecodeError

\* C5: for every 2xx response whose Content-Type is absent or names an
\* unrecognised media type, an envelope that is returned has content type
\* JSON, the call succeeds whenever the version header is a single known tag,
\* and an error that is returned comes from the version step, never from the
\* content type step.
C5_ContentTypeDefaultsToJSON ==
    (Answered("get2") /\ Success2xx
        /\ (resp.ContentType = <<>> \/ resp.ContentType = <<"text/plain">>)) =>
        /\ ret.res # Nil => ret.res.contentType = ContentTypeJSON
        /\ (Len(resp.Version) = 1 /\ resp.Version[1] \in KnownVersions) =>
               ReturnedEnvelope
        /\ ret.err # Nil =>
               (ReturnedDecodeError /\ ret.err.cause.msg \notin ContentTypeMessages)

\* C5 happens: an unrecognised media type, answered with a JSON envelope
C5_Witness ==
    /\ Answered("get2") /\ Success2xx
    /\ resp.ContentType = <<"text/plain">>
    /\ ReturnedEnvelope
    /\ ret.res.contentType = ContentTypeJSON

C7_CallError ==
    (Answered("get2") /\ resp.readOk
        /\ (resp.StatusCode < 200 \/ resp.StatusCode >= 300)
        /\ resp.StatusCode # 404) =>
        /\ ret.res = Nil
        /\ ret.err.kind = "Error"
        /\ ret.err.Method = "GET"
        /\ ret.err.Endpoint = call.endpoint
        /\ ret.err.StatusCode = resp.StatusCode
        /\ ret.err.Data = resp.Body

\* C7 happens: a 3xx with a body that ends in a line feed
C7_Witness ==
    /\ Answered("get2") /\ resp.readOk
    /\ resp.StatusCode = 304
    /\ Len(resp.Body) > 1 /\ resp.Body[Len(resp.Body)] = "LF"
    /\ ret.res = Nil
    /\ ret.err.kind = "Error"

\* C8: for post, every response outside 2xx, 404 included, whose body was
\* read gives a Call Error with method POST, the path, the status and the
\* whole body; and post never returns nil for both the result and the error.
C8_PostCallError ==
    /\ (Answered("post") /\ resp.readOk
          /\ (resp.StatusCode < 200 \/ resp.StatusCode >= 300)) =>
          /\ ret.res = Nil
          /\ ret.err.kind = "Error"
          /\ ret.err.Method = "POST"
          /\ ret.err.Endpoint = call.endpoint
          /\ ret.err.StatusCode = resp.StatusCode
          /\ ret.err.Data = resp.Body
    /\ (pc = "done" /\ call.op = "post") => ~(ret.res = Nil /\ ret.err = Nil)

\* C8 happens: post has been answered 404 and returned a Call Error
C8_Witness ==
    /\ Answered("post") /\ resp.readOk
    /\ resp.StatusCode = 404
    /\ ret.res = Nil
    /\ ret.err.kind = "Error"

\* C9: when a 2xx response carries a single version header with a known tag,
\* get2 returns an envelope whose version is the header's, whatever the
\* payload declares; and whenever the header is present, the version of a
\* returned envelope is the header's, not the payload's.
C9_HeaderWins ==
    /\ (Answered("get2") /\ Success2xx /\ Len(resp.Version) = 1
          /\ resp.Version[1] \in KnownVersions) =>
          (ReturnedEnvelope /\ ret.res.consensusVersion = resp.Version[1])
    /\ (Answered("get2") /\ Success2xx /\ Len(resp.Version) >= 1
          /\ ret.res # Nil) =>
          ret.res.consensusVersion = resp.Version[1]

\* C9 happens: the header says altair and the JSON payload says phase0
C9_Witness ==
    /\ Answered("get2") /\ Success2xx
    /\ resp.ContentType = <<"application/json">>
    /\ resp.Version = <<"altair">>
    /\ DocOf(resp.Body) = <<"{", "version:phase0", "}">>
    /\ ReturnedEnvelope

\* C10: for a 2xx response, a version header with several values or with a
\* value that is no known tag makes get2 return no envelope and a decode
\* error that is not a Call Error, also when the payload declares a known
\* version.
C10_BadVersionHeader ==
    (Answered("get2") /\ Success2xx
        /\ (Len(resp.Version) >= 2
              \/ (Len(resp.Version) = 1 /\ resp.Version[1] \notin KnownVersions))) =>
        /\ ReturnedDecodeError
        /\ ret.err.kind # "Error"

\* C10 happens: two version values on a JSON response whose payload names a
\* known version
C10_Witness ==
    /\ Answered("get2") /\ Success2xx
    /\ resp.ContentType = <<"application/json">>
    /\ resp.Version = <<"altair", "altair">>
    /\ DocOf(resp.Body) = <<"{", "version:altair", "}">>
    /\ ReturnedDecodeError

\* C11: every envelope get2 returns has a non-empty payload only if its
\* status is 2xx other than 204; the envelopes for 404 and 204 have an empty
\* payload; and for any other status outside 2xx no envelope is returned.
C11_PayloadOnlyOnSuccess ==
    (pc = "done" /\ call.op = "get2") =>
        /\ ret.res # Nil =>
              /\ ret.res.body # <<>> =>
                    (/\ ret.res.statusCode >= 200 /\ ret.res.statusCode < 300
                     /\ ret.res.statusCode # 204)
              /\ ret.res.statusCode \in {404, 204} => ret.res.body = <<>>
        /\ (call.fault = "none"
              /\ (resp.StatusCode < 200 \/ resp.StatusCode >= 300)
              /\ resp.StatusCode # 404) => ret.res = Nil

\* C11 happens: an envelope with a payload has been returned for a 206
C11_Witness ==
    /\ Answered("get2")
    /\ resp.StatusCode = 206
    /\ ReturnedEnvelope
    /\ ret.res.body # <<>>
    /\ ret.res.statusCode = 206

C20_ContextCancelled ==
    pc = "done" =>
        /\ opCtx # "live"
        /\ call.fault \notin {"body", "url"} => opCtx = "cancelled"

\* C20 happens: get has returned the body of a 200 with its context
\* cancelled
C20_Witness ==
    /\ Answered("get")
    /\ resp.StatusCode = 200 /\ resp.readOk
    /\ ret.res = Reader(resp.Body)
    /\ opCtx = "cancelled"

\* C12: for every value v, UnmarshalSSZ of MarshalSSZ(v) returns no error
\* and leaves the receiver equal to v in all eight fields; and UnmarshalSSZ
\* of a buffer whose length is not 216 returns an error and leaves the
\* receiver's fields as they were.
C12_RoundTrip ==
    sszOp = "unmarshal" =>
        /\ inputBuf = encoding =>
              /\ sszErr = Nil
              /\ b.BlockRoot = marshalled.BlockRoot
              /\ b.Index = marshalled.Index
              /\ b.Slot = marshalled.Slot
              /\ b.BlockParentRoot = marshalled.BlockParentRoot
              /\ b.ProposerIndex = marshalled.ProposerIndex
              /\ b.BlobRoot = marshalled.BlobRoot
              /\ b.KzgCommitment = marshalled.KzgCommitment
              /\ b.KzgProof = marshalled.KzgProof
        /\ Len(inputBuf) # 216 => (sszErr # Nil /\ b = bBefore)

\* C12 happens: a receiver that held a decoded value has refused a buffer
\* one byte too long and kept its fields
C12_Witness ==
    /\ sszOp = "unmarshal"
    /\ Len(inputBuf) = 217
    /\ sszErr # Nil
    /\ b = bBefore
    /\ b # ZeroSidecar
    /\ b # marshalled

(***************************************************************************)
(* Vocabulary of the properties of the multi-endpoint call.                *)
(***************************************************************************)
\* a call of BeaconState is under way or has returned
Called == mpc \in {"running", "returned"}

\* the capable members that answer with a state
Succeeding == { m \in Capable(plan) : plan[m].res # Nil }

\* the answer "not available": nil and no error
NotFoundAnswer == [res |-> Nil, err |-> Nil]

\* the cause retained for member m: its own error if its outcome was
\* consumed, "deadline exceeded" if its call was cancelled
CauseOf(m) ==
    [member |-> m,
     err |-> IF m \in reported THEN plan[m].err ELSE DeadlineExceeded]

C14_NotFoundIsNotAnError ==
    mpc = "returned" =>
        /\ (mresult.res = Nil /\ mresult.err = Nil)
              <=> (fanout.res = Nil /\ fanout.err = Nil)
        /\ (reported = Capable(plan)
              /\ \A m \in Capable(plan) : plan[m] = NotFoundAnswer) =>
              (mresult.res = Nil /\ mresult.err = Nil)

\* C14 happens: all of three capable members answered "not available"
C14_Witness ==
    /\ mpc = "returned"
    /\ Cardinality(Capable(plan)) = 3
    /\ reported = Capable(plan)
    /\ \A m \in Capable(plan) : plan[m] = NotFoundAnswer
    /\ mresult = NotFoundAnswer

\* C15: when exactly one capable member answers with a state and every
\* other one fails with a transport error, a call that returns before the
\* deadline returns that member's state, in whatever order the outcomes
\* arrive, and it has returned as soon as that member's outcome is consumed,
\* whether or not the failing members have reported.
C15_OneSuccessAmongFailures ==
    (Called /\ Cardinality(Succeeding) = 1
        /\ \A m \in Capable(plan) \ Succeeding : plan[m].err = TransportError) =>
        /\ (mpc = "returned" /\ ~deadlineFired) =>
              (mresult.err = Nil /\ {mresult.res} = { State(m) : m \in Succeeding })
        /\ Succeeding \subseteq reported =>
              (mpc = "returned" /\ {mresult.res} = { State(m) : m \in Succeeding })

\* C15 happens: the call has returned the state after one member had failed
\* and while another failing member has not yet reported
C15_Witness ==
    /\ mpc = "returned"
    /\ Cardinality(Succeeding) = 1
    /\ Cardinality(Capable(plan)) = 3
    /\ \A m \in Capable(plan) \ Succeeding : plan[m].err = TransportError
    /\ Cardinality(reported) = 2
    /\ late = {}
    /\ mresult.res # Nil

\* C16: when every one of the N capable members has failed (with its own
\* error, of any kind, or by being cancelled at the deadline), the result is
\* an Aggregate error holding exactly N causes, one for each member.
C16_AggregateOfAllCauses ==
    (mpc = "returned" /\ \A m \in Capable(plan) : plan[m].err # Nil) =>
        /\ mresult.res = Nil
        /\ mresult.err.kind = "aggregate"
        /\ BagCardinality(mresult.err.causes) = Cardinality(Capable(plan))
        /\ \A m \in Capable(plan) : CopiesIn(CauseOf(m), mresult.err.causes) = 1

\* C16 happens: three members have failed with a transport, a call and a
\* decode error
C16_Witness ==
    /\ mpc = "returned"
    /\ ~deadlineFired
    /\ Cardinality(Capable(plan)) = 3
    /\ { plan[m].err : m \in Capable(plan) }
          = {TransportError, CallError, DecodeError}
    /\ mresult.err # Nil

\* C17: when at least one capable member answers with a state and all the
\* others answer "not available", a call that returns before the deadline
\* returns the state of a member that has one, whatever the order of
\* arrival.
C17_SuccessBeatsNotFound ==
    (mpc = "returned" /\ ~deadlineFired /\ Succeeding # {}
        /\ \A m \in Capable(plan) \ Succeeding : plan[m] = NotFoundAnswer) =>
        /\ mresult.err = Nil
        /\ \E m \in Succeeding : mresult.res = State(m)

\* C17 happens: "not available" was consumed first and the state returned
C17_Witness ==
    /\ mpc = "returned"
    /\ \E m \in reported : plan[m] = NotFoundAnswer
    /\ \A m \in Capable(plan) \ Succeeding : plan[m] = NotFoundAnswer
    /\ mresult.res # Nil

\* C18: once the deadline has elapsed with no member having succeeded, the
\* call has returned without a value, every member call that was pending is
\* cancelled and retained as exactly one "deadline exceeded" cause, and no
\* member outcome is taken in afterwards.
C18_DeadlineCancelsPending ==
    deadlineFired =>
        /\ mpc = "returned"
        /\ mresult.res = Nil
        /\ cancelled = Capable(plan) \ reported
        /\ late = {}
        /\ \A m \in reported : plan[m].res = Nil
        /\ \A m \in cancelled :
              CopiesIn([member |-> m, err |-> DeadlineExceeded], causes) = 1

\* C18 happens: the deadline has cancelled two pending calls, one of which
\* would have answered with a state
C18_Witness ==
    /\ deadlineFired
    /\ Cardinality(cancelled) = 2
    /\ \E m \in cancelled : plan[m].res # Nil
    /\ mresult.err # Nil

====
